---- MODULE Spec2Model ----
(***************************************************************************)
(* A model of the TypeWriterText custom element of src/type-writer-text.js *)
(* (the content parser, the incremental renderer, the duration policy and  *)
(* the playback controller), with the host it runs on reduced to what the  *)
(* element uses: a frame scheduler (requestAnimationFrame /                *)
(* cancelAnimationFrame), event dispatch to observers that may call back   *)
(* into the element, a DOM to build trees in, and the attach / detach      *)
(* lifecycle.                                                              *)
(***************************************************************************)
EXTENDS Integers, Sequences, FiniteSets, TLC

(***************************************************************************)
(* Bounds of the model.                                                    *)
(***************************************************************************)
\* seek positions are the multiples of 1/PosDenom
PosDenom == 2
\* the largest seek position tried
MaxPosition == 3
\* at most MaxPending scheduled callbacks are pending at once
MaxPending == 2
\* the scheduler's clock runs to MaxTime milliseconds
MaxTime == 120
\* size (elements plus characters) of the markup trees of the round trip
MaxNodes == 4

(***************************************************************************)
(* JavaScript numbers.  A number is the fraction n/d in lowest terms with  *)
(* d >= 0; 1/0 is Infinity, -1/0 is -Infinity and 0/0 is NaN, so that a    *)
(* division by zero gives what it gives in the program.                    *)
(***************************************************************************)
Abs(x) == IF x < 0 THEN -x ELSE x

Sign(x) == IF x < 0 THEN -1 ELSE IF x > 0 THEN 1 ELSE 0

RECURSIVE GCD(_, _)
GCD(a, b) == IF b = 0 THEN a ELSE GCD(b, a % b)

Num(n, d) ==
  IF d = 0 THEN [n |-> Sign(n), d |-> 0]
  ELSE LET g == GCD(Abs(n), d) IN [n |-> n \div g, d |-> d \div g]

Whole(i) == [n |-> i, d |-> 1]

NaN == [n |-> 0, d |-> 0]

Infinity == [n |-> 1, d |-> 0]

IsNaN(a) == a.n = 0 /\ a.d = 0

IsWhole(a) == a.d = 1

\* a < b, a <= b, a > b, a >= b: false as soon as one side is NaN
Lt(a, b) == ~IsNaN(a) /\ ~IsNaN(b) /\ a.n * b.d < b.n * a.d

Le(a, b) == ~IsNaN(a) /\ ~IsNaN(b) /\ a.n * b.d <= b.n * a.d

Gt(a, b) == Lt(b, a)

Ge(a, b) == Le(b, a)

\* !x : a number is falsy when it is 0 or NaN
Falsy(a) == a.n = 0

Plus(a, b) == Num(a.n * b.d + b.n * a.d, a.d * b.d)

Minus(a, b) == Num(a.n * b.d - b.n * a.d, a.d * b.d)

Times(a, b) == Num(a.n * b.n, a.d * b.d)

\* a / b
Over(a, b) ==
  IF b.n < 0 THEN Num(-(a.n * b.d), -(a.d * b.n))
  ELSE Num(a.n * b.d, a.d * b.n)

\* a seek that rounds up
Ceiling(a) == IF a.d = 0 THEN a ELSE Whole(-((-a.n) \div a.d))

\* Math.floor
Floor(a) == IF a.d = 0 THEN a ELSE Whole(a.n \div a.d)

\* Math.min, Math.max
MathMin(a, b) == IF IsNaN(a) \/ IsNaN(b) THEN NaN ELSE IF Lt(b, a) THEN b ELSE a

MathMax(a, b) == IF IsNaN(a) \/ IsNaN(b) THEN NaN ELSE IF Gt(b, a) THEN b ELSE a

(***************************************************************************)
(* The host's DOM.  A node is a text node (data: its characters) or an     *)
(* element (nodeName in upper case as HTML documents report it, attributes *)
(* as the ordered name/value pairs, childNodes).  A tree (the children of  *)
(* a div, of a fragment, of #content) is a sequence of nodes.              *)
(***************************************************************************)
TextNode(chars) ==
  [nodeType |-> "text", nodeName |-> "#text", attributes |-> << >>,
   childNodes |-> << >>, data |-> chars]

Element(nodeName, attributes, childNodes) ==
  [nodeType |-> "element", nodeName |-> nodeName, attributes |-> attributes,
   childNodes |-> childNodes, data |-> << >>]

\* String.prototype.toLowerCase on the tag names of the model
ToLowerCase(s) ==
  CASE s = "B" -> "b"
    [] s = "I" -> "i"
    [] OTHER -> s

\* the nodeName an HTML document gives the element made by createElement(name)
ToUpperCase(s) ==
  CASE s = "b" -> "B"
    [] s = "i" -> "I"
    [] OTHER -> s

\* document.createElement(name) followed by setAttribute for each attribute
CreateElement(tagInfo) ==
  Element(ToUpperCase(tagInfo.name), tagInfo.attributes, << >>)

\* document.createTextNode(char)
CreateTextNode(char) == TextNode(<<char>>)

\* the node reached from the root of `tree` by the child positions of `path`
RECURSIVE NodeAt(_, _)
NodeAt(tree, path) ==
  IF Len(path) = 1 THEN tree[path[1]]
  ELSE NodeAt(tree[path[1]].childNodes, Tail(path))

\* parent.appendChild(node), the parent being the root (path << >>) or the
\* element at `path`
RECURSIVE AppendChild(_, _, _)
AppendChild(tree, path, node) ==
  IF path = << >> THEN Append(tree, node)
  ELSE [tree EXCEPT ![path[1]].childNodes =
          AppendChild(@, Tail(path), node)]

\* the text of a tree in document order (textContent)
RECURSIVE TextContent(_)
TextContent(tree) ==
  IF tree = << >> THEN << >>
  ELSE LET node == Head(tree)
       IN (IF node.nodeType = "text" THEN node.data
           ELSE TextContent(node.childNodes)) \o TextContent(Tail(tree))

\* Node.normalize on every level: adjacent text nodes are joined
RECURSIVE Normalize(_)
Normalize(tree) ==
  IF tree = << >> THEN << >>
  ELSE LET node == Head(tree)
           rest == Normalize(Tail(tree))
       IN IF node.nodeType = "text"
          THEN IF rest # << >> /\ Head(rest).nodeType = "text"
               THEN <<TextNode(node.data \o Head(rest).data)>> \o Tail(rest)
               ELSE <<node>> \o rest
          ELSE <<[node EXCEPT !.childNodes = Normalize(@)]>> \o rest

\* number of elements and characters of a tree
RECURSIVE Size(_)
Size(tree) ==
  IF tree = << >> THEN 0
  ELSE LET node == Head(tree)
       IN (IF node.nodeType = "text" THEN Len(node.data)
           ELSE 1 + Size(node.childNodes)) + Size(Tail(tree))

(***************************************************************************)
(* ContentParser: _traverseNodes gives the CharUnits that the traversal of *)
(* `nodes` pushes on _parsedNodes, in order.                               *)
(***************************************************************************)
RECURSIVE traverseNodes(_, _)
traverseNodes(nodes, openTags) ==
  IF nodes = << >> THEN << >>
  ELSE LET node == Head(nodes)
           pushed ==
             IF node.nodeType = "text"
             THEN [i \in 1..Len(node.data) |->
                     [type |-> "char", char |-> node.data[i], tags |-> openTags]]
             ELSE IF node.nodeType = "element"
             THEN LET tagInfo == [name |-> ToLowerCase(node.nodeName),
                                  attributes |-> node.attributes]
                      newOpenTags == Append(openTags, tagInfo)
                  IN traverseNodes(node.childNodes, newOpenTags)
             ELSE << >>
       IN pushed \o traverseNodes(Tail(nodes), openTags)

\* _parseContent: the markup is the tree the host's parser builds from it
parseContent(originalContent) == traverseNodes(originalContent, << >>)

(***************************************************************************)
(* IncrementalRenderer.  The fragment under construction is a tree; the    *)
(* tagStack is the sequence of the paths of the materialized elements, and *)
(* parentStack is the fragment followed by the same elements, so the       *)
(* current parent is the fragment (path << >>) or the top of tagStack.     *)
(***************************************************************************)
\* _tagsMatch(tags1, tags2), tags1 being elements of `fragment`
tagsMatch(fragment, tags1, tags2) ==
  /\ Len(tags1) = Len(tags2)
  /\ \A i \in 1..Len(tags1) :
       ToLowerCase(NodeAt(fragment, tags1[i]).nodeName) = tags2[i].name

\* the while loop that closes tags: the tagStack it leaves
RECURSIVE closeTags(_, _, _)
closeTags(fragment, tagStack, tags) ==
  IF \/ Len(tagStack) > Len(tags)
     \/ (Len(tagStack) > 0 /\ ~tagsMatch(fragment, tagStack, tags))
  THEN closeTags(fragment, SubSeq(tagStack, 1, Len(tagStack) - 1), tags)
  ELSE tagStack

CurrentParent(tagStack) ==
  IF tagStack = << >> THEN << >> ELSE tagStack[Len(tagStack)]

\* the for loop that opens tags, from j = tagStack.length
RECURSIVE openNewTags(_, _)
openNewTags(st, tags) ==
  IF Len(st.tagStack) < Len(tags)
  THEN LET tagInfo == tags[Len(st.tagStack) + 1]
           parent == CurrentParent(st.tagStack)
           fragment == AppendChild(st.fragment, parent, CreateElement(tagInfo))
           siblings == IF parent = << >> THEN fragment
                       ELSE NodeAt(fragment, parent).childNodes
           element == Append(parent, Len(siblings))
       IN openNewTags([fragment |-> fragment,
                    tagStack |-> Append(st.tagStack, element)], tags)
  ELSE st

\* one iteration of the loop of _render for the CharUnit `node`
renderChar(st, node) ==
  LET closed == [st EXCEPT !.tagStack = closeTags(st.fragment, @, node.tags)]
      opened == openNewTags(closed, node.tags)
  IN [opened EXCEPT !.fragment =
        AppendChild(@, CurrentParent(opened.tagStack), CreateTextNode(node.char))]

\* the loop of _render from i on: reading _parsedNodes[i] past the end gives
\* undefined, and node.type then throws a TypeError
RECURSIVE renderLoop(_, _, _, _)
renderLoop(parsedNodes, currentIndex, i, st) ==
  IF Lt(Whole(i), currentIndex)
  THEN IF i + 1 > Len(parsedNodes)
       THEN [threw |-> TRUE, fragment |-> st.fragment]
       ELSE renderLoop(parsedNodes, currentIndex, i + 1,
                       renderChar(st, parsedNodes[i + 1]))
  ELSE [threw |-> FALSE, fragment |-> st.fragment]

\* _render: whether it throws, and the tree it puts in #content otherwise
render(parsedNodes, currentIndex) ==
  renderLoop(parsedNodes, currentIndex, 0,
             [fragment |-> << >>, tagStack |-> << >>])

(***************************************************************************)
(* The state.  The element's fields keep their names without the leading   *)
(* underscore; contentElement is the tree under #content.                  *)
(***************************************************************************)
VARIABLES
  originalContent,  \* _originalContent: the markup, as the tree it parses to
  parsedNodes,      \* _parsedNodes: the sequence of CharUnits
  currentIndex,     \* _currentIndex, a number
  isPlaying,        \* _isPlaying
  isPaused,         \* _isPaused
  animationFrame,   \* _animationFrame: a handle, 0 for null
  lastTimestamp,    \* _lastTimestamp, a number
  speed,            \* _speed
  minDuration,      \* _minDuration
  maxDuration,      \* _maxDuration
  contentElement,   \* the children of _contentElement
  innerHTML,        \* the element's own children (its light DOM)
  connected,        \* whether the element is attached to a document
  frames,           \* the host's pending animation frame callbacks
  nextHandle,       \* the next handle requestAnimationFrame returns
  batch,            \* the callbacks the frame being run has still to call
  now,              \* the timestamp of the latest frame
  events,           \* the events dispatched by the latest operation, in order
  threw,            \* whether the latest operation ended in an uncaught error
  cancelled,        \* history: a cancelling operation returned, none other since
  lastOp,           \* history: the latest operation or callback
  argument,         \* history: the position it was given, if it was a seek
  trace,            \* history: the events of an uninterrupted run; its log in a run with pauses
  period            \* the frame period of a fixed-rate scheduler, 0 for any

vars ==
  <<originalContent, parsedNodes, currentIndex, isPlaying, isPaused,
    animationFrame, lastTimestamp, speed, minDuration, maxDuration,
    contentElement, innerHTML, connected, frames, nextHandle, batch, now,
    events, threw, cancelled, lastOp, argument, trace, period>>

\* the element and its host as one value, on which the operations work
World ==
  [originalContent |-> originalContent, parsedNodes |-> parsedNodes,
   currentIndex |-> currentIndex, isPlaying |-> isPlaying,
   isPaused |-> isPaused, animationFrame |-> animationFrame,
   lastTimestamp |-> lastTimestamp, speed |-> speed,
   minDuration |-> minDuration, maxDuration |-> maxDuration,
   contentElement |-> contentElement, innerHTML |-> innerHTML,
   connected |-> connected, frames |-> frames, nextHandle |-> nextHandle,
   batch |-> batch, events |-> events, threw |-> threw,
   cancelled |-> cancelled]

\* the world `w` becomes the next state
Commit(w) ==
  /\ originalContent' = w.originalContent
  /\ parsedNodes' = w.parsedNodes
  /\ currentIndex' = w.currentIndex
  /\ isPlaying' = w.isPlaying
  /\ isPaused' = w.isPaused
  /\ animationFrame' = w.animationFrame
  /\ lastTimestamp' = w.lastTimestamp
  /\ speed' = w.speed
  /\ minDuration' = w.minDuration
  /\ maxDuration' = w.maxDuration
  /\ contentElement' = w.contentElement
  /\ innerHTML' = w.innerHTML
  /\ connected' = w.connected
  /\ frames' = w.frames
  /\ nextHandle' = w.nextHandle
  /\ batch' = w.batch
  /\ events' = w.events
  /\ threw' = w.threw
  /\ cancelled' = w.cancelled

\* the world `w` is the initial state
Begin(w) ==
  /\ originalContent = w.originalContent
  /\ parsedNodes = w.parsedNodes
  /\ currentIndex = w.currentIndex
  /\ isPlaying = w.isPlaying
  /\ isPaused = w.isPaused
  /\ animationFrame = w.animationFrame
  /\ lastTimestamp = w.lastTimestamp
  /\ speed = w.speed
  /\ minDuration = w.minDuration
  /\ maxDuration = w.maxDuration
  /\ contentElement = w.contentElement
  /\ innerHTML = w.innerHTML
  /\ connected = w.connected
  /\ frames = w.frames
  /\ nextHandle = w.nextHandle
  /\ batch = w.batch
  /\ events = w.events
  /\ threw = w.threw
  /\ cancelled = w.cancelled

\* the state after the constructor
Constructed(markup) ==
  [originalContent |-> << >>, parsedNodes |-> << >>,
   currentIndex |-> Whole(0), isPlaying |-> FALSE, isPaused |-> FALSE,
   animationFrame |-> 0, lastTimestamp |-> Whole(0), speed |-> Whole(1),
   minDuration |-> Whole(0), maxDuration |-> Infinity,
   contentElement |-> << >>, innerHTML |-> markup, connected |-> FALSE,
   frames |-> {}, nextHandle |-> 1, batch |-> {}, events |-> << >>,
   threw |-> FALSE,
   cancelled |-> FALSE]

(***************************************************************************)
(* The host: the frame scheduler and event dispatch.                       *)
(***************************************************************************)
\* a host that hands out a handle and never calls back
forgetFrame(w) ==
  [w EXCEPT !.animationFrame = w.nextHandle, !.nextHandle = @ + 1]

\* this._animationFrame = requestAnimationFrame((ts) => this._animate(ts))
requestAnimationFrame(w) ==
  [w EXCEPT !.frames = @ \cup {w.nextHandle},
            !.animationFrame = w.nextHandle,
            !.nextHandle = @ + 1]

\* _cancelAnimation; cancelling a handle that has run or was cancelled does nothing
cancelAnimation(w) ==
  IF w.animationFrame # 0
  THEN [w EXCEPT !.frames = @ \ {w.animationFrame}, !.animationFrame = 0]
  ELSE w

Event(type) == [type |-> type, detail |-> << >>]

\* what an observer does when it receives the event `on`: nothing (on = "none"),
\* or one call of a public operation, or the removal of the element
NoReaction == [on |-> "none", op |-> "none", position |-> Whole(0)]

\* _render into #content; a throw leaves #content as it was
doRender(w) ==
  LET r == render(w.parsedNodes, w.currentIndex)
  IN IF r.threw THEN [w EXCEPT !.threw = TRUE]
     ELSE [w EXCEPT !.contentElement = r.fragment]

\* a delay that ignores the duration constraints
unconstrainedDelay(w) == Over(Whole(50), w.speed)

\* _calculateCharDelay
calculateCharDelay(w) ==
  LET totalChars == Len(w.parsedNodes)
      baseDelay == Over(Whole(50), w.speed)
      baseDuration == Times(baseDelay, Whole(totalChars))
  IN IF totalChars = 0 THEN Whole(0)
     ELSE IF Gt(w.minDuration, Whole(0)) /\ Lt(baseDuration, w.minDuration)
     THEN Over(w.minDuration, Whole(totalChars))
     ELSE IF Lt(w.maxDuration, Infinity) /\ Gt(baseDuration, w.maxDuration)
     THEN Over(w.maxDuration, Whole(totalChars))
     ELSE baseDelay

(***************************************************************************)
(* The public operations, each as the world it leaves.  `r` is the         *)
(* reaction of the observers to the events the operation dispatches; the   *)
(* operation an observer calls dispatches to observers that do nothing.    *)
(***************************************************************************)
RECURSIVE dispatchEvent(_, _, _)
RECURSIVE start(_, _)
RECURSIVE pause(_, _)
RECURSIVE resume(_, _)
RECURSIVE complete(_, _)
RECURSIVE reset(_, _)
RECURSIVE seek(_, _, _)

\* setText(content)
setText(w, content) ==
  LET a == cancelAnimation([w EXCEPT !.cancelled = FALSE])
      b == [a EXCEPT !.originalContent = content,
                     !.currentIndex = Whole(0),
                     !.lastTimestamp = Whole(0),
                     !.isPlaying = FALSE,
                     !.isPaused = FALSE,
                     !.parsedNodes = parseContent(content)]
  IN doRender(b)

\* disconnectedCallback, called by the host when the element is removed
disconnectedCallback(w) ==
  [cancelAnimation(w) EXCEPT !.connected = FALSE, !.cancelled = TRUE]

\* the call an observer makes
Invoke(w, r) ==
  CASE r.op = "start" -> start(w, NoReaction)
    [] r.op = "pause" -> pause(w, NoReaction)
    [] r.op = "resume" -> resume(w, NoReaction)
    [] r.op = "pauseResume" -> resume(pause(w, NoReaction), NoReaction)
    [] r.op = "complete" -> complete(w, NoReaction)
    [] r.op = "reset" -> reset(w, NoReaction)
    [] r.op = "seek" -> seek(w, r.position, NoReaction)
    [] r.op = "setText" -> setText(w, << >>)
    [] r.op = "remove" -> IF w.connected THEN disconnectedCallback(w) ELSE w
    [] OTHER -> w

\* dispatchEvent: synchronous, the observers run before it returns
dispatchEvent(w, event, r) ==
  LET a == [w EXCEPT !.events = Append(@, event)]
  IN IF r.on = event.type THEN Invoke(a, r) ELSE a

\* a start() without its guard
restart(w, r) ==
  LET a == cancelAnimation([w EXCEPT !.cancelled = FALSE])
      b == [a EXCEPT !.currentIndex = Whole(0),
                     !.lastTimestamp = Whole(0),
                     !.isPlaying = TRUE,
                     !.isPaused = FALSE]
  IN requestAnimationFrame(dispatchEvent(doRender(b), Event("start"), r))

\* start()
start(w, r) ==
  IF w.isPlaying THEN [w EXCEPT !.cancelled = FALSE]
  ELSE LET a == cancelAnimation([w EXCEPT !.cancelled = FALSE])
           b == [a EXCEPT !.currentIndex = Whole(0),
                          !.lastTimestamp = Whole(0),
                          !.isPlaying = TRUE,
                          !.isPaused = FALSE]
           c == dispatchEvent(doRender(b), Event("start"), r)
       IN requestAnimationFrame(c)

\* pause()
pause(w, r) ==
  IF ~w.isPlaying \/ w.isPaused THEN w
  ELSE LET a == cancelAnimation([w EXCEPT !.isPaused = TRUE])
       IN dispatchEvent([a EXCEPT !.cancelled = TRUE], Event("pause"), r)

\* a resume() that keeps the anchor of the elapsed time
resumeKeepingAnchor(w, r) ==
  IF ~w.isPlaying \/ ~w.isPaused THEN [w EXCEPT !.cancelled = FALSE]
  ELSE LET a == [w EXCEPT !.isPaused = FALSE, !.cancelled = FALSE]
       IN requestAnimationFrame(dispatchEvent(a, Event("resume"), r))

\* resume()
resume(w, r) ==
  IF ~w.isPlaying \/ ~w.isPaused THEN [w EXCEPT !.cancelled = FALSE]
  ELSE LET a == [w EXCEPT !.isPaused = FALSE,
                          !.lastTimestamp = Whole(0),
                          !.cancelled = FALSE]
       IN requestAnimationFrame(dispatchEvent(a, Event("resume"), r))

\* a complete() that leaves the output as it was
completeWithoutRender(w, r) ==
  LET a == cancelAnimation(w)
      b == [a EXCEPT !.currentIndex = Whole(Len(a.parsedNodes)),
                     !.isPlaying = FALSE,
                     !.isPaused = FALSE]
  IN dispatchEvent([b EXCEPT !.cancelled = TRUE], Event("complete"), r)

\* complete()
complete(w, r) ==
  LET a == cancelAnimation(w)
      b == [a EXCEPT !.currentIndex = Whole(Len(a.parsedNodes)),
                     !.isPlaying = FALSE,
                     !.isPaused = FALSE]
  IN dispatchEvent([doRender(b) EXCEPT !.cancelled = TRUE], Event("complete"), r)

\* reset()
reset(w, r) ==
  LET a == cancelAnimation(w)
      b == [a EXCEPT !.currentIndex = Whole(0),
                     !.lastTimestamp = Whole(0),
                     !.isPlaying = FALSE,
                     !.isPaused = FALSE]
  IN dispatchEvent([doRender(b) EXCEPT !.cancelled = TRUE], Event("reset"), r)

\* seek(position)
seek(w, position, r) ==
  LET wasPlaying == w.isPlaying /\ ~w.isPaused
      a == cancelAnimation([w EXCEPT !.cancelled = FALSE])
      length == Whole(Len(a.parsedNodes))
      b == [a EXCEPT !.currentIndex =
                       IF Ge(position, Whole(0)) /\ Le(position, Whole(1))
                       THEN Floor(Times(position, length))
                       ELSE MathMax(Whole(0), MathMin(position, length)),
                     !.lastTimestamp = Whole(0)]
      c == doRender(b)
      d == dispatchEvent(c,
             [type |-> "seek",
              detail |-> [position |-> c.currentIndex,
                          progress |-> Over(c.currentIndex, length)]], r)
  IN IF wasPlaying
     THEN requestAnimationFrame([d EXCEPT !.isPaused = FALSE])
     ELSE d

\* a callback that reveals two characters at once
incrementTwice(index) == Plus(index, Whole(2))

\* this._currentIndex++
increment(index) == Plus(index, Whole(1))

\* an end test that is off by one
pastEnd(w) == Gt(w.currentIndex, Whole(Len(w.parsedNodes)))

\* this._currentIndex >= this._parsedNodes.length
atEnd(w) == Ge(w.currentIndex, Whole(Len(w.parsedNodes)))

\* _animate(timestamp), the callback the scheduler calls
animate(w, timestamp, r) ==
  IF ~w.isPlaying \/ w.isPaused THEN w
  ELSE LET a == IF Falsy(w.lastTimestamp)
                THEN [w EXCEPT !.lastTimestamp = timestamp] ELSE w
           elapsed == Minus(timestamp, a.lastTimestamp)
           charDelay == calculateCharDelay(a)
           b == [a EXCEPT !.lastTimestamp = timestamp]
           b1 == doRender([b EXCEPT !.currentIndex = increment(@)])
           c == IF Lt(b.currentIndex, Whole(Len(b.parsedNodes)))
                THEN IF b1.threw THEN b1
                     ELSE dispatchEvent(b1,
                            [type |-> "progress",
                             detail |->
                               [current |-> b1.currentIndex,
                                total |-> Whole(Len(b1.parsedNodes)),
                                progress |-> Over(b1.currentIndex,
                                                  Whole(Len(b1.parsedNodes)))]],
                            r)
                ELSE b
       IN IF Ge(elapsed, charDelay)
          THEN IF c.threw THEN c
               ELSE IF atEnd(c)
               THEN dispatchEvent([c EXCEPT !.isPlaying = FALSE],
                                  Event("complete"), r)
               ELSE requestAnimationFrame(c)
          ELSE requestAnimationFrame(a)

\* connectedCallback; `reducedMotion`: the respect-motion-preference attribute
\* is set and the media query (prefers-reduced-motion: reduce) matches
connectedCallback(w, reducedMotion, r) ==
  LET a == [w EXCEPT !.connected = TRUE, !.cancelled = FALSE]
      b == IF a.originalContent = << >>
           THEN [a EXCEPT !.originalContent = a.innerHTML,
                          !.innerHTML = << >>,
                          !.parsedNodes = parseContent(a.innerHTML)]
           ELSE a
  IN IF reducedMotion THEN complete(b, r)
     ELSE IF ~b.isPlaying /\ ~b.isPaused THEN start(b, r)
     ELSE b

\* parseFloat on the attribute values of the model; null (the attribute was
\* removed) and text that is no number give NaN
ParseFloat(value) ==
  CASE value = "2" -> Whole(2)
    [] value = "0.5" -> Num(1, 2)
    [] value = "0" -> Whole(0)
    [] value = "-1" -> Whole(-1)
    [] value = "100" -> Whole(100)
    [] value = "2000" -> Whole(2000)
    [] value = "5000" -> Whole(5000)
    [] OTHER -> NaN

\* attributeChangedCallback(name, oldValue, newValue)
attributeChangedCallback(w, name, oldValue, newValue) ==
  IF oldValue = newValue THEN w
  ELSE LET number == ParseFloat(newValue)
       IN CASE name = "speed" ->
                 [w EXCEPT !.speed =
                    IF Gt(number, Whole(0)) THEN number ELSE Whole(1)]
            [] name = "min-duration" ->
                 [w EXCEPT !.minDuration =
                    IF Ge(number, Whole(0)) THEN number ELSE Whole(0)]
            [] name = "max-duration" ->
                 [w EXCEPT !.maxDuration =
                    IF Ge(number, Whole(0)) THEN number ELSE Infinity]
            [] OTHER -> w

\* the getters isPlaying, isPaused and progress
getIsPlaying(w) == w.isPlaying /\ ~w.isPaused

getIsPaused(w) == w.isPaused

getProgress(w) ==
  IF Len(w.parsedNodes) > 0
  THEN Over(w.currentIndex, Whole(Len(w.parsedNodes)))
  ELSE Whole(0)

(***************************************************************************)
(* The inputs of the model.                                                *)
(***************************************************************************)
\* "" , "ab" and "<b>a<i class="x">b</i>c</b>"
EmptyContent == << >>

PlainContent == <<TextNode(<<"a", "b">>)>>

NestedContent ==
  <<Element("B", << >>,
      <<TextNode(<<"a">>),
        Element("I", <<<<"class", "x">>>>, <<TextNode(<<"b">>)>>),
        TextNode(<<"c">>)>>)>>

Contents == {EmptyContent, PlainContent, NestedContent}

\* the positions given to seek: -1/2, 0, 1/2, 1, 3/2, ... , MaxPosition
Positions == {Num(k, PosDenom) : k \in -1..(MaxPosition * PosDenom)}

\* the time between two frames, in milliseconds
FrameSteps == {30, 60}

\* the reactions of an observer to the events of the types `types`
ReactionsTo(types) ==
  {NoReaction}
  \cup [on : types,
        op : {"start", "pause", "resume", "pauseResume", "complete", "reset",
              "setText", "remove"},
        position : {Whole(0)}]
  \cup [on : types, op : {"seek"}, position : {Whole(0), Num(1, 2)}]

(***************************************************************************)
(* The actions: one per call from outside and one per scheduler callback.  *)
(***************************************************************************)
\* the world an operation starts from
Enter == [World EXCEPT !.events = << >>, !.threw = FALSE]

\* no frame is being run: calls from outside come between frames
Quiet == batch \cap frames = {}

\* The handles are renumbered between operations: the program and the host
\* use only their identity and their order, and _animationFrame, the pending
\* callbacks and those of the running frame are all that refers to them.
Renumber(w) ==
  LET running == w.batch \cap w.frames
      live == w.frames \cup (IF w.animationFrame # 0 THEN {w.animationFrame} ELSE {})
      rank(h) == Cardinality({x \in live : x <= h})
  IN [w EXCEPT !.frames = {rank(h) : h \in w.frames},
               !.batch = {rank(h) : h \in running},
               !.animationFrame = IF @ = 0 THEN 0 ELSE rank(@),
               !.nextHandle = Cardinality(live) + 1]

\* the operation `name`, called with `position`, ends in the world `w`
ReturnFrom(w, name, position) ==
  \E left \in {w} :
    /\ Cardinality(left.frames) <= MaxPending
    /\ \E next \in {Renumber(left)} : Commit(next)
    /\ lastOp' = name
    /\ argument' = position

Return(w, name) == ReturnFrom(w, name, Whole(0))

\* a call from outside: what it leaves of the host's frame and of the history
Outside == Quiet /\ UNCHANGED <<now, trace, period>>

\* cancelled is cleared when a call from outside that cancels nothing returns
Clear(w) == [w EXCEPT !.cancelled = FALSE]

Attach(reducedMotion) ==
  /\ ~connected
  /\ Outside
  /\ Return(Clear(connectedCallback(Enter, reducedMotion, NoReaction)), "attach")

Detach ==
  /\ connected
  /\ Outside
  /\ Return(disconnectedCallback(Enter), "detach")

Start == Outside /\ Return(Clear(start(Enter, NoReaction)), "start")

Pause == Outside /\ Return(pause(Enter, NoReaction), "pause")

Resume == Outside /\ Return(Clear(resume(Enter, NoReaction)), "resume")

Complete == Outside /\ Return(complete(Enter, NoReaction), "complete")

Reset == Outside /\ Return(reset(Enter, NoReaction), "reset")

Seek(position) ==
  Outside /\ ReturnFrom(Clear(seek(Enter, position, NoReaction)), "seek", position)

SetText(content) == Outside /\ Return(setText(Enter, content), "setText")

\* the scheduler runs the callback `h` with the frame's timestamp `ts`; `rest`
\* are the callbacks the frame has still to run
Callback(h, rest, ts, r) ==
  /\ Return(animate([Enter EXCEPT !.frames = @ \ {h}, !.batch = rest],
                    Whole(ts), r), "tick")
  /\ now' = ts

Min(S) == CHOOSE x \in S : \A y \in S : x <= y

\* a new frame, `step` milliseconds after the last one: its callbacks are the
\* pending ones, called in the order they were requested
TickNewFrame(step, r) ==
  /\ Quiet
  /\ frames # {}
  /\ now + step <= MaxTime
  /\ Callback(Min(frames), frames \ {Min(frames)}, now + step, r)
  /\ UNCHANGED <<trace, period>>

\* the next callback of the frame being run
TickSameFrame(r) ==
  /\ ~Quiet
  /\ Callback(Min(batch \cap frames), batch \ {Min(batch \cap frames)}, now, r)
  /\ UNCHANGED <<trace, period>>

Init ==
  /\ \E markup \in Contents : Begin(Constructed(markup))
  /\ now = 0
  /\ lastOp = "new"
  /\ argument = Whole(0)
  /\ trace = << >>
  /\ period = 0

\* the observers of the model react to the progress events
Reactions == ReactionsTo({"progress"})

Next ==
  \/ \E reducedMotion \in BOOLEAN : Attach(reducedMotion)
  \/ Detach
  \/ Start
  \/ Pause
  \/ Resume
  \/ Complete
  \/ Reset
  \/ \E position \in Positions : Seek(position)
  \/ \E content \in Contents : SetText(content)
  \/ \E step \in FrameSteps, r \in Reactions : TickNewFrame(step, r)
  \/ \E r \in Reactions : TickSameFrame(r)

Spec == Init /\ [][Next]_vars

(***************************************************************************)
(* The round trip: the host builds the element's children (any tree of at  *)
(* most MaxNodes elements and characters, in document order as its parser  *)
(* does), the element is attached, which parses them, and complete()       *)
(* renders the whole sequence.                                             *)
(***************************************************************************)
\* the places where the host's parser can add the next node: the root and
\* the elements on the rightmost branch
RECURSIVE OpenElements(_)
OpenElements(tree) ==
  {<< >>} \cup
    (IF tree # << >> /\ tree[Len(tree)].nodeType = "element"
     THEN {<<Len(tree)>> \o path : path \in OpenElements(tree[Len(tree)].childNodes)}
     ELSE {})

\* the parser adds a character: to the text node that ends `nodes`, if any
InsertCharacter(nodes, char) ==
  IF nodes # << >> /\ nodes[Len(nodes)].nodeType = "text"
  THEN [nodes EXCEPT ![Len(nodes)].data = Append(@, char)]
  ELSE Append(nodes, TextNode(<<char>>))

RECURSIVE InsertCharacterAt(_, _, _)
InsertCharacterAt(tree, path, char) ==
  IF path = << >> THEN InsertCharacter(tree, char)
  ELSE [tree EXCEPT ![path[1]].childNodes =
          InsertCharacterAt(@, Tail(path), char)]

SourceChars == {"a", "b"}

SourceElements ==
  {Element("B", << >>, << >>),
   Element("B", <<<<"class", "x">>>>, << >>),
   Element("I", << >>, << >>)}

Building == lastOp \in {"new", "build"} /\ Size(innerHTML) < MaxNodes

BuildText(path, char) ==
  /\ Building
  /\ innerHTML' = InsertCharacterAt(innerHTML, path, char)
  /\ lastOp' = "build"
  /\ UNCHANGED <<originalContent, parsedNodes, currentIndex, isPlaying,
                 isPaused, animationFrame, lastTimestamp, speed, minDuration,
                 maxDuration, contentElement, connected, frames, nextHandle,
                 batch, now, events, threw, cancelled, argument, trace,
                 period>>

BuildElement(path, element) ==
  /\ Building
  /\ innerHTML' = AppendChild(innerHTML, path, element)
  /\ lastOp' = "build"
  /\ UNCHANGED <<originalContent, parsedNodes, currentIndex, isPlaying,
                 isPaused, animationFrame, lastTimestamp, speed, minDuration,
                 maxDuration, contentElement, connected, frames, nextHandle,
                 batch, now, events, threw, cancelled, argument, trace,
                 period>>

RoundTripAttach == lastOp \in {"new", "build"} /\ Attach(FALSE)

RoundTripComplete == lastOp = "attach" /\ Complete

InitRoundTrip ==
  /\ Begin(Constructed(<< >>))
  /\ now = 0
  /\ lastOp = "new"
  /\ argument = Whole(0)
  /\ trace = << >>
  /\ period = 0

NextRoundTrip ==
  \/ \E path \in OpenElements(innerHTML), char \in SourceChars :
       BuildText(path, char)
  \/ \E path \in OpenElements(innerHTML), element \in SourceElements :
       BuildElement(path, element)
  \/ RoundTripAttach
  \/ RoundTripComplete

SpecRoundTrip == InitRoundTrip /\ [][NextRoundTrip]_vars

(***************************************************************************)
(* An uninterrupted run: the attributes are set, the element is attached   *)
(* (which starts playback) or start() is called again once playback is     *)
(* over, and then only the scheduler acts, its frames at irregular times.  *)
(* No observer reacts.  trace is the events of the run so far.             *)
(***************************************************************************)
\* the clock of an uninterrupted run runs to MaxRunTime milliseconds
MaxRunTime == 400

\* the time between two frames: early, on time, and four delays late
RunSteps == {30, 60, 200}

AttributeValues == {"2", "0.5", "abc"}

SetAttribute(name, oldValue, newValue) ==
  /\ lastOp \in {"new", "attribute"}
  /\ Return(attributeChangedCallback(Enter, name, oldValue, newValue), "attribute")
  /\ UNCHANGED <<now, trace, period>>

RunAttach ==
  /\ ~connected
  /\ Quiet
  /\ Return(Clear(connectedCallback(Enter, FALSE, NoReaction)), "attach")
  /\ trace' = events'
  /\ UNCHANGED <<now, period>>

RunStart ==
  /\ connected
  /\ ~isPlaying
  /\ Quiet
  /\ Return(Clear(start(Enter, NoReaction)), "start")
  /\ trace' = events'
  /\ UNCHANGED <<now, period>>

RunTick(step) ==
  /\ Quiet
  /\ frames # {}
  /\ now + step <= MaxRunTime
  /\ Callback(Min(frames), frames \ {Min(frames)}, now + step, NoReaction)
  /\ trace' = trace \o events'
  /\ UNCHANGED period

NextRun ==
  \/ \E oldValue, newValue \in AttributeValues :
       SetAttribute("speed", oldValue, newValue)
  \/ RunAttach
  \/ RunStart
  \/ \E step \in RunSteps : RunTick(step)

SpecRun == Init /\ [][NextRun]_vars

(***************************************************************************)
(* Playback under a scheduler with a fixed frame period: the duration      *)
(* attributes are set, the element is attached at time 0, and the          *)
(* scheduler calls back every `period` milliseconds.                       *)
(***************************************************************************)
\* the clock of a fixed-rate run runs to MaxTimingTime milliseconds
MaxTimingTime == 3000

\* the longest content of a fixed-rate run
MaxTimingChars == 10

\* the content of n characters
TextOf(n) == <<TextNode([i \in 1..n |-> "a"])>>

TimingLengths == {1, 2, 3, MaxTimingChars}

\* 16 and 17 for a 60 Hz display, 100 which divides every delay of the model
\* but 2000/3, and slow schedulers
Periods == {16, 17, 100, 300, 700}

InitTiming ==
  /\ \E n \in TimingLengths : Begin(Constructed(TextOf(n)))
  /\ now = 0
  /\ lastOp = "new"
  /\ argument = Whole(0)
  /\ trace = << >>
  /\ period \in Periods

TimingTick ==
  /\ Quiet
  /\ frames # {}
  /\ now + period <= MaxTimingTime
  /\ Callback(Min(frames), frames \ {Min(frames)}, now + period, NoReaction)
  /\ trace' = trace \o events'
  /\ UNCHANGED period

NextTiming ==
  \/ \E name \in {"min-duration", "max-duration"}, newValue \in {"2000", "5000"} :
       SetAttribute(name, "null", newValue)
  \/ RunAttach
  \/ TimingTick

SpecTiming == InitTiming /\ [][NextTiming]_vars

(***************************************************************************)
(* The duration policy: the three attributes are set to any of their       *)
(* values, before and after the element is attached to content of any      *)
(* length, and the scheduler calls back at a fixed rate.                   *)
(***************************************************************************)
\* the clock of the policy runs to MaxPolicyTime milliseconds
MaxPolicyTime == 300

\* the longest content of the policy
MaxPolicyChars == 10

PolicyLengths == {0, 1, 3, MaxPolicyChars}

\* the values of speed, min-duration and max-duration: proper ones, zero,
\* a negative one and text that is no number
PolicyValues ==
  [name \in {"speed", "min-duration", "max-duration"} |->
     IF name = "speed" THEN {"2", "0.5", "-1", "abc"}
     ELSE {"0", "100", "2000", "5000", "-1", "abc"}]

ChangeAttribute(name, newValue) ==
  /\ Quiet
  /\ Return(attributeChangedCallback(Enter, name, "null", newValue), "attribute")
  /\ UNCHANGED <<now, trace, period>>

PolicyTick ==
  /\ Quiet
  /\ frames # {}
  /\ now + period <= MaxPolicyTime
  /\ Callback(Min(frames), frames \ {Min(frames)}, now + period, NoReaction)
  /\ trace' = trace \o events'
  /\ UNCHANGED period

InitPolicy ==
  /\ \E n \in PolicyLengths : Begin(Constructed(TextOf(n)))
  /\ now = 0
  /\ lastOp = "new"
  /\ argument = Whole(0)
  /\ trace = << >>
  /\ period = 100

NextPolicy ==
  \/ \E name \in DOMAIN PolicyValues :
       \E newValue \in PolicyValues[name] : ChangeAttribute(name, newValue)
  \/ RunAttach
  \/ PolicyTick

SpecPolicy == InitPolicy /\ [][NextPolicy]_vars

(***************************************************************************)
(* A run under a fair scheduler: as the uninterrupted run, and every       *)
(* pending callback is eventually called.  start() clears the anchor of    *)
(* the elapsed time, so nothing depends on the timestamps before it: the   *)
(* clock of this specification is read from the latest start().            *)
(***************************************************************************)
\* the clock of a fair run runs to MaxLiveTime milliseconds after start():
\* the slowest run of the model, 3 characters of 100 ms, the first callback
\* 200 ms after start() and each character 30 + 30 + 30 + 200 ms after the
\* last, takes 1070
MaxLiveTime == 1100

LiveStart ==
  /\ connected
  /\ ~isPlaying
  /\ Quiet
  /\ Return(Clear(start(Enter, NoReaction)), "start")
  /\ trace' = events'
  /\ now' = 0
  /\ UNCHANGED period

LiveTick(step) ==
  /\ Quiet
  /\ frames # {}
  /\ now + step <= MaxLiveTime
  /\ Callback(Min(frames), frames \ {Min(frames)}, now + step, NoReaction)
  /\ trace' = trace \o events'
  /\ UNCHANGED period

NextLive ==
  \/ \E oldValue, newValue \in AttributeValues :
       SetAttribute("speed", oldValue, newValue)
  \/ RunAttach
  \/ LiveStart
  \/ \E step \in RunSteps : LiveTick(step)

\* The scheduler calls a pending callback: the steps of LiveTick, by what
\* they need (a pending callback, a timestamp on the clock) and what they
\* leave (the clock advanced, the latest operation a callback).
Called ==
  /\ Quiet
  /\ frames # {}
  /\ \E step \in RunSteps : now + step <= MaxLiveTime /\ now' = now + step
  /\ lastOp' = "tick"

\* fairness: a callback that stays pending is eventually called
SpecLive == Init /\ [][NextLive]_vars /\ WF_now(Called)

(***************************************************************************)
(* A run with pauses: the element is attached, the scheduler calls back,   *)
(* and pause() and resume() are called between frames; while the element   *)
(* is paused no callback is pending and time passes.  Here trace is the    *)
(* log of the run: each operation and callback with its time and the index *)
(* it left.                                                                *)
(***************************************************************************)
\* the clock of a run with pauses runs to MaxPauseTime milliseconds
MaxPauseTime == 320

\* the longest log of a run with pauses
MaxPauseTrace == 8

\* the time that passes in one step of a pause: four delays at speed 1
PauseLength == 200

Logged(name) ==
  /\ Len(trace) < MaxPauseTrace
  /\ trace' = Append(trace, [type |-> name,
                             detail |-> [timestamp |-> now',
                                         current |-> currentIndex']])

PauseAttach ==
  /\ ~connected
  /\ Quiet
  /\ Return(Clear(connectedCallback(Enter, FALSE, NoReaction)), "attach")
  /\ UNCHANGED <<now, period>>
  /\ Logged("attach")

PauseTick(step) ==
  /\ Quiet
  /\ frames # {}
  /\ now + step <= MaxPauseTime
  /\ Callback(Min(frames), frames \ {Min(frames)}, now + step, NoReaction)
  /\ Logged("tick")
  /\ UNCHANGED period

RunPause ==
  /\ getIsPlaying(World)
  /\ Quiet
  /\ Return(pause(Enter, NoReaction), "pause")
  /\ UNCHANGED <<now, period>>
  /\ Logged("pause")

RunResume ==
  /\ getIsPaused(World)
  /\ Quiet
  /\ Return(Clear(resume(Enter, NoReaction)), "resume")
  /\ UNCHANGED <<now, period>>
  /\ Logged("resume")

\* frames pass while the element is paused: no callback is pending
Wait ==
  /\ getIsPaused(World)
  /\ frames = {}
  /\ now + PauseLength <= MaxPauseTime
  /\ now' = now + PauseLength
  /\ lastOp' = "wait"
  /\ UNCHANGED <<originalContent, parsedNodes, currentIndex, isPlaying,
                 isPaused, animationFrame, lastTimestamp, speed, minDuration,
                 maxDuration, contentElement, innerHTML, connected, frames,
                 nextHandle, batch, events, threw, cancelled, argument,
                 period>>
  /\ Logged("wait")

NextPause ==
  \/ \E oldValue, newValue \in AttributeValues :
       SetAttribute("speed", oldValue, newValue)
  \/ PauseAttach
  \/ \E step \in FrameSteps : PauseTick(step)
  \/ RunPause
  \/ RunResume
  \/ Wait

SpecPause == Init /\ [][NextPause]_vars

(***************************************************************************)
(* C1.  Structural round trip: parsing a markup tree and rendering the     *)
(* whole sequence gives a tree with the same nesting, the same attributes  *)
(* and the same text as the source (text nodes joined, as the source's     *)
(* are).                                                                   *)
(***************************************************************************)
RoundTrip ==
  lastOp = "complete" => Normalize(contentElement) = originalContent

(***************************************************************************)
(* C2.  In an uninterrupted run every scheduler callback, however late,    *)
(* advances the index by 0 or by exactly 1, the index and the progress     *)
(* never decrease, and after an advance the text displayed is the first    *)
(* `index` characters of the sequence, in order.                           *)
(***************************************************************************)
\* the characters of the first k CharUnits
Prefix(k) == [i \in 1..k |-> parsedNodes[i].char]

OneCharacterPerCallback ==
  [][lastOp' = "tick" =>
       /\ currentIndex' \in {currentIndex, Plus(currentIndex, Whole(1))}
       /\ Ge(getProgress(World)', getProgress(World))
       /\ currentIndex' # currentIndex =>
            /\ IsWhole(currentIndex')
            /\ TextContent(contentElement') = Prefix(currentIndex'.n)]_vars

\* a callback 200 ms after the one that set the anchor (four delays at speed
\* 1) has revealed the first character only
LateCallbackAdvancedOnce ==
  /\ lastOp = "tick"
  /\ Len(parsedNodes) = 3
  /\ currentIndex = Whole(1)
  /\ lastTimestamp = Whole(230)
  /\ TextContent(contentElement) = <<"a">>

(***************************************************************************)
(* C3.  The index is a whole number of characters between 0 and the length *)
(* of the sequence whenever _render runs, and _render never reads past the *)
(* end of the sequence.                                                    *)
(***************************************************************************)
IndexInvariant ==
  /\ IsWhole(currentIndex)
  /\ Ge(currentIndex, Whole(0))
  /\ Le(currentIndex, Whole(Len(parsedNodes)))
  /\ ~threw

(***************************************************************************)
(* C4.  At most one scheduled callback is pending, whatever the            *)
(* interleaving of the operations, the callbacks and the operations that   *)
(* observers call while a callback dispatches its events.                  *)
(***************************************************************************)
SinglePendingCallback == Cardinality(frames) <= 1

(***************************************************************************)
(* C5.  Once pause(), complete(), reset() or the teardown has returned, no *)
(* scheduler callback advances the index, changes the phase, renders or    *)
(* emits an event until the next public operation or attach.               *)
(***************************************************************************)
CancellationSafety ==
  [][(cancelled /\ lastOp' = "tick") =>
       /\ currentIndex' = currentIndex
       /\ isPlaying' = isPlaying
       /\ isPaused' = isPaused
       /\ contentElement' = contentElement
       /\ events' = << >>]_vars

(***************************************************************************)
(* C6.  start() called in a phase other than Playing (Idle, Paused or      *)
(* Completed) sets the index to 0 and the phase to Playing, renders the    *)
(* empty prefix, emits one start event and leaves one callback scheduled.  *)
(***************************************************************************)
StartRestarts ==
  [][(lastOp' = "start" /\ ~getIsPlaying(World)) =>
       /\ currentIndex' = Whole(0)
       /\ isPlaying' /\ ~isPaused'
       /\ contentElement' = << >>
       /\ events' = <<Event("start")>>
       /\ Cardinality(frames') = 1]_vars

(***************************************************************************)
(* C7.  seek(position) on a sequence of length len sets the index to       *)
(* floor(position * len) when 0 <= position <= 1 and to position clamped   *)
(* to [0, len] otherwise, renders the characters before the index, and     *)
(* emits one seek event whose position is the index and whose progress,    *)
(* for len > 0, is index / len.                                            *)
(***************************************************************************)
SeekTarget(position, length) ==
  IF position.n >= 0 /\ position.n <= position.d
  THEN Whole((position.n * length) \div position.d)
  ELSE IF position.n < 0 THEN Whole(0)
  ELSE IF position.n > length * position.d THEN Whole(length)
  ELSE position

\* the number of whole i >= 0 with i < index
Shown(index) == -((-index.n) \div index.d)

SeekEffect ==
  lastOp = "seek" =>
    /\ currentIndex = SeekTarget(argument, Len(parsedNodes))
    /\ TextContent(contentElement) = Prefix(Shown(currentIndex))
    /\ Len(events) = 1
    /\ events[1].type = "seek"
    /\ events[1].detail.position = currentIndex
    /\ Len(parsedNodes) > 0 =>
         /\ events[1].detail.progress.d # 0
         /\ Times(events[1].detail.progress, Whole(Len(parsedNodes)))
              = currentIndex

\* seek(0.5) on two characters: index 1 and the event {position: 1, progress: 0.5}
SoughtHalfWay ==
  /\ lastOp = "seek"
  /\ argument = Num(1, 2)
  /\ Len(parsedNodes) = 2
  /\ currentIndex = Whole(1)
  /\ TextContent(contentElement) = <<"a">>
  /\ events = <<[type |-> "seek",
                 detail |-> [position |-> Whole(1), progress |-> Num(1, 2)]]>>

(***************************************************************************)
(* C8.  With an empty sequence every ratio the controller reports is 0:    *)
(* the progress property, the progress of the seek and progress events,    *)
(* and the delay per character.                                            *)
(***************************************************************************)
ZeroLengthRatios ==
  Len(parsedNodes) = 0 =>
    /\ getProgress(World) = Whole(0)
    /\ calculateCharDelay(World) = Whole(0)
    /\ \A i \in 1..Len(events) :
         events[i].type \in {"seek", "progress"} =>
           events[i].detail.progress = Whole(0)

(***************************************************************************)
(* C9.  An uninterrupted run on N >= 1 characters emits, after start, the  *)
(* progress events with current = 1, ..., N in this order, total = N and   *)
(* progress = current / N, then one complete event; it ends with the index *)
(* N, the progress 1, the phase Completed and no callback scheduled.       *)
(***************************************************************************)
ProgressEvent(i, n) ==
  [type |-> "progress",
   detail |-> [current |-> Whole(i), total |-> Whole(n), progress |-> Num(i, n)]]

ExpectedTrace(k, n, done) ==
  <<Event("start")>> \o [i \in 1..k |-> ProgressEvent(i, n)]
    \o (IF done THEN <<Event("complete")>> ELSE << >>)

RunToCompletion ==
  (lastOp \in {"attach", "start", "tick"} /\ Len(parsedNodes) >= 1) =>
    /\ IsWhole(currentIndex)
    /\ currentIndex.n \in 0..Len(parsedNodes)
    /\ trace = ExpectedTrace(currentIndex.n, Len(parsedNodes), ~isPlaying)
    /\ ~isPlaying <=> currentIndex.n = Len(parsedNodes)
    /\ ~isPlaying =>
         /\ ~isPaused
         /\ getProgress(World) = Whole(1)
         /\ frames = {}

RunCompleted ==
  /\ lastOp = "tick"
  /\ Len(parsedNodes) = 3
  /\ ~isPlaying
  /\ currentIndex = Whole(3)
  /\ Len(trace) = 5
  /\ trace[5] = Event("complete")

(***************************************************************************)
(* C10.  With min-duration 2000, max-duration 5000, speed 1 and N          *)
(* characters, 50 * N < 2000, under a scheduler of frame period F, the     *)
(* time from the first callback to the complete event differs from 2000 ms *)
(* by at most F.  (The first callback comes at time F.)                    *)
(***************************************************************************)
CompletesWithinOneFrame ==
  (/\ lastOp = "tick"
   /\ ~isPlaying
   /\ speed = Whole(1)
   /\ minDuration = Whole(2000)
   /\ maxDuration = Whole(5000)
   /\ 50 * Len(parsedNodes) < 2000) =>
    Abs((now - period) - 2000) <= period

(***************************************************************************)
(* C11.  The delay per character is that of the duration policy: 0 for no  *)
(* characters; min / N when min > 0 and (50 / speed) * N < min; otherwise  *)
(* max / N when max is bounded and (50 / speed) * N > max; otherwise       *)
(* 50 / speed.  The attributes always hold speed > 0, min >= 0 and max >=  *)
(* 0 or unbounded, and when N > 0 and min <= max the whole run, delay * N, *)
(* lies between min and max.                                               *)
(***************************************************************************)
DurationPolicy(totalChars, speedValue, minMs, maxMs) ==
  LET projected == Num(50 * speedValue.d * totalChars, speedValue.n)
  IN IF totalChars = 0 THEN Whole(0)
     ELSE IF Gt(minMs, Whole(0)) /\ Lt(projected, minMs)
     THEN Num(minMs.n, minMs.d * totalChars)
     ELSE IF maxMs # Infinity /\ Gt(projected, maxMs)
     THEN Num(maxMs.n, maxMs.d * totalChars)
     ELSE Num(50 * speedValue.d, speedValue.n)

DelayFollowsPolicy ==
  LET totalChars == Len(parsedNodes)
      delay == calculateCharDelay(World)
      whole == Times(delay, Whole(totalChars))
  IN /\ Gt(speed, Whole(0))
     /\ Ge(minDuration, Whole(0))
     /\ Ge(maxDuration, Whole(0))
     /\ delay = DurationPolicy(totalChars, speed, minDuration, maxDuration)
     /\ (totalChars > 0 /\ Le(minDuration, maxDuration)) =>
          Le(minDuration, whole) /\ Le(whole, maxDuration)

\* 10 characters, min-duration 2000, max-duration 5000, speed 1: 200 ms, and
\* the callbacks, 100 ms apart, have revealed one character after the third
StretchedToMinimum ==
  /\ lastOp = "tick"
  /\ Len(parsedNodes) = 10
  /\ speed = Whole(1)
  /\ minDuration = Whole(2000)
  /\ maxDuration = Whole(5000)
  /\ calculateCharDelay(World) = Whole(200)
  /\ now = 300
  /\ currentIndex = Whole(1)

(***************************************************************************)
(* C12.  pause() called while Paused and start() called while Playing do   *)
(* nothing: the index, the flags, the anchor of the elapsed time, the      *)
(* output and the pending callbacks stay as they were and no event is      *)
(* emitted, at every index and however often the call is repeated.         *)
(***************************************************************************)
Idempotence ==
  [][(\/ lastOp' = "pause" /\ getIsPaused(World)
      \/ lastOp' = "start" /\ getIsPlaying(World)) =>
       /\ UNCHANGED <<currentIndex, isPlaying, isPaused, lastTimestamp,
                      contentElement, frames, animationFrame>>
       /\ events' = << >>]_vars

\* pause() on an element paused at its first character
PausedTwice ==
  /\ lastOp = "pause"
  /\ events = << >>
  /\ isPlaying /\ isPaused
  /\ currentIndex = Whole(1)
  /\ frames = {}

(***************************************************************************)
(* C13.  From every state seek(1) and complete() leave the same index, the *)
(* length of the sequence, the same progress and the same output.          *)
(***************************************************************************)
SameOutcome(w) ==
  /\ currentIndex' = w.currentIndex
  /\ currentIndex' = Whole(Len(parsedNodes))
  /\ getProgress(World)' = getProgress(w)
  /\ contentElement' = w.contentElement

SeekOneIsComplete ==
  [][/\ (lastOp' = "seek" /\ argument' = Whole(1)) =>
          SameOutcome(complete(Enter, NoReaction))
     /\ lastOp' = "complete" =>
          SameOutcome(seek(Enter, Whole(1), NoReaction))]_vars

\* seek(1) during playback of the nested content: everything is shown, as
\* after complete(), and playback goes on
SoughtToTheEnd ==
  /\ lastOp = "seek"
  /\ argument = Whole(1)
  /\ Len(parsedNodes) = 3
  /\ currentIndex = Whole(3)
  /\ TextContent(contentElement) = <<"a", "b", "c">>
  /\ isPlaying /\ ~isPaused

(***************************************************************************)
(* C14.  seek(position) leaves the phase as it was, in every phase and for *)
(* every position; the index and the output have changed when it returns;  *)
(* and a callback is scheduled when it returns if and only if the phase    *)
(* was Playing, not Paused, when it was called.                            *)
(***************************************************************************)
SeekFrame ==
  [][lastOp' = "seek" =>
       /\ isPlaying' = isPlaying
       /\ isPaused' = isPaused
       /\ currentIndex' = SeekTarget(argument', Len(parsedNodes))
       /\ TextContent(contentElement') = Prefix(Shown(currentIndex'))
       /\ frames' # {} <=> getIsPlaying(World)]_vars

(***************************************************************************)
(* C15.  setText(content), in any phase and at any index, leaves the       *)
(* sequence parsed from the new content, the index 0, an empty output, the *)
(* phase neither Playing nor Paused, no callback pending and no event; and *)
(* while the phase is neither, no callback moves the index.                *)
(***************************************************************************)
SetTextStops ==
  [][/\ lastOp' = "setText" =>
          /\ parsedNodes' = parseContent(originalContent')
          /\ currentIndex' = Whole(0)
          /\ contentElement' = << >>
          /\ ~isPlaying' /\ ~isPaused'
          /\ frames' = {}
          /\ events' = << >>
     /\ (lastOp' = "tick" /\ ~isPlaying) => currentIndex' = currentIndex]_vars

(***************************************************************************)
(* C16.  In _render, when the tags of the next character equal or extend   *)
(* the stack of materialized elements (the same names frame by frame, the  *)
(* same or a greater depth), no element is popped and only the deeper      *)
(* elements are created: an element whose text is followed by a nested     *)
(* child is rendered as one element.                                       *)
(***************************************************************************)
\* the fragment and the tagStack of _render after the first k characters
RECURSIVE Rendered(_)
Rendered(k) ==
  IF k = 0 THEN [fragment |-> << >>, tagStack |-> << >>]
  ELSE renderChar(Rendered(k - 1), parsedNodes[k])

Extends(st, tags) ==
  /\ Len(tags) >= Len(st.tagStack)
  /\ \A i \in 1..Len(st.tagStack) :
       ToLowerCase(NodeAt(st.fragment, st.tagStack[i]).nodeName) = tags[i].name

StackReuse ==
  lastOp = "complete" =>
    \A k \in 1..Len(parsedNodes) :
      LET st == Rendered(k - 1)
          tags == parsedNodes[k].tags
      IN Extends(st, tags) =>
           /\ closeTags(st.fragment, st.tagStack, tags) = st.tagStack
           /\ SubSeq(Rendered(k).tagStack, 1, Len(st.tagStack)) = st.tagStack

(***************************************************************************)
(* C19.  Playback is never stranded: whenever the element is attached, no  *)
(* frame is being run and the phase is Playing, a callback is pending; in  *)
(* particular after the element was detached during playback and attached *)
(* again.                                                                  *)
(***************************************************************************)
NeverStranded ==
  (connected /\ Quiet /\ getIsPlaying(World)) => frames # {}

(***************************************************************************)
(* C20.  The flags are well-formed: _isPaused is set only while _isPlaying *)
(* is, so that both are false after a complete event.                      *)
(***************************************************************************)
FlagsWellFormed ==
  /\ isPaused => isPlaying
  /\ (events # << >> /\ events[Len(events)].type = "complete") =>
       ~isPlaying /\ ~isPaused

(***************************************************************************)
(* C17.  Liveness: under a fair scheduler, once playback was started       *)
(* (by attachment or by start()) on N >= 0 characters and nothing but the  *)
(* scheduler acts, the phase eventually is Completed with the index N and  *)
(* no callback pending; for N = 0 the first callback completes the run,    *)
(* with no progress event.                                                 *)
(***************************************************************************)
EventuallyCompleted ==
  /\ (lastOp \in {"attach", "start"} /\ isPlaying)
       ~> (/\ ~isPlaying /\ ~isPaused
           /\ currentIndex = Whole(Len(parsedNodes))
           /\ frames = {})
  /\ [](lastOp = "tick" /\ Len(parsedNodes) = 0 =>
          ~isPlaying /\ trace = <<Event("start"), Event("complete")>>)

\* the first callback on empty content has completed the run
EmptyRunCompleted ==
  /\ lastOp = "tick"
  /\ Len(parsedNodes) = 0
  /\ ~isPlaying /\ ~isPaused
  /\ currentIndex = Whole(0)
  /\ trace = <<Event("start"), Event("complete")>>
  /\ frames = {}

(***************************************************************************)
(* C18.  The time spent Paused does not count toward the delay of the next *)
(* character: pause() and resume() leave the index as it was, and after a  *)
(* resume() the index stays the same at every callback that comes less     *)
(* than one delay after the first callback that follows the resume(),      *)
(* however long the pause and whatever time had elapsed before it.         *)
(***************************************************************************)
\* the first callback after the entry p of the log, 0 if there is none
FirstCallbackAfter(p) ==
  LET later == {q \in (p + 1)..Len(trace) : trace[q].type = "tick"}
  IN IF later = {} THEN 0 ELSE Min(later)

PausedTimeNotCounted ==
  \A p \in 2..Len(trace) :
    /\ trace[p].type \in {"pause", "resume", "wait"} =>
         trace[p].detail.current = trace[p - 1].detail.current
    /\ trace[p].type = "resume" =>
         \A q \in (p + 1)..Len(trace) :
           (/\ trace[q].type = "tick"
            /\ Lt(Whole(trace[q].detail.timestamp
                         - trace[FirstCallbackAfter(p)].detail.timestamp),
                   calculateCharDelay(World))) =>
             trace[q].detail.current = trace[p].detail.current

\* paused 30 ms into the delay of the first character and resumed 200 ms
\* later: the callbacks at 260 and 290 leave the index, the one at 320 moves it
ResumedAfterLongPause ==
  /\ lastOp = "tick"
  /\ speed = Whole(1)
  /\ Len(trace) = 8
  /\ trace[3].type = "pause"
  /\ trace[4].type = "wait"
  /\ trace[5].type = "resume"
  /\ trace[6].detail = [timestamp |-> 260, current |-> Whole(0)]
  /\ trace[7].detail = [timestamp |-> 290, current |-> Whole(0)]
  /\ trace[8].detail = [timestamp |-> 320, current |-> Whole(1)]

====
